---- MODULE Spec2Model ----
(***************************************************************************)
(* A model of WrapCapPDF's CapPDFHandler (src/src/WrapCapPDF/              *)
(* pdf_extractor.py): the Markdown and plain-text extraction with its      *)
(* regex post-processing and marker slicing, the lazily cached in-memory   *)
(* copy of the PDF, the two save helpers and the path validation.          *)
(*                                                                         *)
(* A Python str is a sequence of one-character strings.  Indices that the  *)
(* code computes (str.find, slices) are kept 0-based, as in Python.        *)
(***************************************************************************)
EXTENDS Integers, Sequences, FiniteSets, TLC

\* ------------------------------------------------------------------ values

\* Python values that flow through the handler, tagged with their type.
None == [t |-> "None"]
Str(s) == [t |-> "str", s |-> s]
IntVal(n) == [t |-> "int", n |-> n]
Bool(b) == [t |-> "bool", b |-> b]
\* An exception in flight (a call that raised instead of returning).
Raise(exc) == [t |-> "raise", exc |-> exc]

\* Python truthiness, as used by `if start or end`, `if start`, `if end`.
Truthy(v) ==
    CASE v.t = "None" -> FALSE
      [] v.t = "str"  -> v.s # <<>>
      [] v.t = "int"  -> v.n # 0
      [] v.t = "bool" -> v.b

LogRec(level, msg) == [level |-> level, msg |-> msg]

Min(S) == CHOOSE x \in S : \A y \in S : x <= y

\* ------------------------------------------------------------ str methods

\* s[i : i + len(sub)] == sub, i 0-based.
OccursAt(s, sub, i) ==
    /\ i >= 0
    /\ i + Len(sub) <= Len(s)
    /\ SubSeq(s, i + 1, i + Len(sub)) = sub

RECURSIVE FindFrom(_, _, _)
FindFrom(s, sub, i) ==
    IF i + Len(sub) > Len(s) THEN -1
    ELSE IF OccursAt(s, sub, i) THEN i
    ELSE FindFrom(s, sub, i + 1)

\* A mutated str.find that ignores where the search is to start.
py_find_from_zero(s, sub, start) == FindFrom(s, sub, 0)

\* str.find(sub, start): the lowest index >= start where sub occurs, or -1.
\* A negative start counts from the end, clamped at 0.
py_find(s, sub, start) ==
    LET st == IF start >= 0 THEN start
              ELSE IF start + Len(s) < 0 THEN 0 ELSE start + Len(s)
    IN FindFrom(s, sub, st)

\* s[a:b] for a, b as Python clamps them.
py_slice(s, a, b) ==
    LET norm(i) == IF i >= 0 THEN (IF i > Len(s) THEN Len(s) ELSE i)
                   ELSE IF i + Len(s) < 0 THEN 0 ELSE i + Len(s)
    IN SubSeq(s, norm(a) + 1, norm(b))

\* The characters str.strip() removes, and `\s` matches.
Whitespace == {" ", "\t", "\n", "\r"}

RECURSIVE py_lstrip(_, _)
py_lstrip(s, chars) ==
    IF s # <<>> /\ Head(s) \in chars THEN py_lstrip(Tail(s), chars) ELSE s

RECURSIVE py_rstrip(_, _)
py_rstrip(s, chars) ==
    IF s # <<>> /\ s[Len(s)] \in chars
    THEN py_rstrip(SubSeq(s, 1, Len(s) - 1), chars) ELSE s

\* A mutated strip that trims the left end only.
py_strip_left_only(s, chars) == py_lstrip(s, chars)

\* str.strip(chars)
py_strip(s, chars) == py_rstrip(py_lstrip(s, chars), chars)

\* str.split("\n"): always at least one line.
RECURSIVE py_split(_)
py_split(s) ==
    LET i == FindFrom(s, <<"\n">>, 0)
    IN IF i = -1 THEN <<s>>
       ELSE <<SubSeq(s, 1, i)>> \o py_split(SubSeq(s, i + 2, Len(s)))

\* sep.join(parts)
RECURSIVE py_join(_, _)
py_join(sep, parts) ==
    IF parts = <<>> THEN <<>>
    ELSE IF Len(parts) = 1 THEN parts[1]
    ELSE parts[1] \o sep \o py_join(sep, Tail(parts))

\* No "\n" in s[a:b]  (`.` does not match a newline).
NoNewline(s, a, b) == \A x \in a .. b - 1 : s[x + 1] # "\n"

\* ------------------------------------------------------------------ re.sub

\* Where the leftmost-lazy match of  open(.*?)close  that starts at i ends
\* (exclusive), or -1 when the pattern does not match at i.
DelimMatchEnd(s, i, open, close) ==
    IF ~OccursAt(s, open, i) THEN -1
    ELSE LET Js == {j \in i + Len(open) .. Len(s) :
                       OccursAt(s, close, j) /\ NoNewline(s, i + Len(open), j)}
         IN IF Js = {} THEN -1 ELSE Min(Js) + Len(close)

\* re.sub(open(.*?)close, ropen \1 rclose, s), scanning from pos: each
\* leftmost non-overlapping match is replaced, the text between is copied.
RECURSIVE re_sub_span(_, _, _, _, _, _)
re_sub_span(s, pos, open, close, ropen, rclose) ==
    IF pos >= Len(s) THEN <<>>
    ELSE LET e == DelimMatchEnd(s, pos, open, close)
         IN IF e = -1
            THEN <<s[pos + 1]>> \o re_sub_span(s, pos + 1, open, close, ropen, rclose)
            ELSE ropen \o SubSeq(s, pos + Len(open) + 1, e - Len(close)) \o rclose
                 \o re_sub_span(s, e, open, close, ropen, rclose)

\* Where the match of  !\[.*?\]\(.*?\)  that starts at i ends (exclusive),
\* or -1.  Both groups are lazy and neither crosses a newline.
ImageMatchEnd(s, i) ==
    IF ~OccursAt(s, <<"!", "[">>, i) THEN -1
    ELSE LET Ends(j) == {k \in j + 2 .. Len(s) - 1 :
                            s[k + 1] = ")" /\ NoNewline(s, j + 2, k)}
             Js == {j \in i + 2 .. Len(s) :
                       /\ OccursAt(s, <<"]", "(">>, j)
                       /\ NoNewline(s, i + 2, j)
                       /\ Ends(j) # {}}
         IN IF Js = {} THEN -1 ELSE Min(Ends(Min(Js))) + 1

\* re.sub(r"!\[.*?\]\(.*?\)", "", s) from pos on: one left-to-right pass.
RECURSIVE re_sub_images(_, _)
re_sub_images(s, pos) ==
    IF pos >= Len(s) THEN <<>>
    ELSE LET e == ImageMatchEnd(s, pos)
         IN IF e = -1 THEN <<s[pos + 1]>> \o re_sub_images(s, pos + 1)
            ELSE re_sub_images(s, e)

\* A mutated cleaner that removes nothing.
remove_images_keeps_all(markdown_content) == markdown_content

\* CapPDFHandler._remove_images_from_markdown_content
remove_images_from_markdown_content(markdown_content) ==
    re_sub_images(markdown_content, 0)

\* re.match(r'^\s*\*\*[^*]+\*\*\s*$', line): leading whitespace, "**", one
\* or more characters other than "*", "**", trailing whitespace.
IsBoldOnlyLine(line) ==
    \E p \in 0 .. Len(line) : \E q \in p + 3 .. Len(line) - 2 :
        /\ \A x \in 1 .. p : line[x] \in Whitespace
        /\ OccursAt(line, <<"*", "*">>, p)
        /\ \A x \in p + 3 .. q : line[x] # "*"
        /\ OccursAt(line, <<"*", "*">>, q)
        /\ \A x \in q + 3 .. Len(line) : line[x] \in Whitespace

\* The loop body of the heading detection, for one line.
format_line(line) ==
    IF IsBoldOnlyLine(line)
    THEN <<"#", "#", " ">> \o py_strip(line, {" ", "*"})
    ELSE line

\* CapPDFHandler._format_markdown_content
format_markdown_content(markdown_content) ==
    LET bold == re_sub_span(markdown_content, 0, <<"*", "*">>, <<"*", "*">>,
                            <<"*", "*">>, <<"*", "*">>)
        under == re_sub_span(bold, 0, <<"_", "_">>, <<"_", "_">>,
                             <<"_", "_">>, <<"_", "_">>)
        ital == re_sub_span(under, 0, <<"*">>, <<"*">>, <<"*">>, <<"*">>)
        lines == py_split(ital)
    IN py_join(<<"\n">>, [i \in 1 .. Len(lines) |-> format_line(lines[i])])

\* -------------------------------------------------------------- extraction

\* The message of the log records and of the Markdown error string.  An
\* f-string "<text>: {e}" is the text followed by the exception's name.
MsgMarkers == "Specified start or end markers not found. Returning full content."
MsgMdError == "An error occurred while extracting content: "
MsgTextError == "An error occurred while extracting text content: "
MsgMdSaved == "Markdown file saved successfully: "
MsgMdSaveFailed == "Failed to save Markdown file: "
MsgTextSaved == "Plain text file saved successfully: "
MsgTextSaveFailed == "Failed to save plain text file: "

\* What a try block or a call hands on: a value (or an exception in flight)
\* and the log records emitted on the way.
Out(v, records) == [ret |-> v, log |-> records]

\* `if start or end: ...`, the marker slicing both extractions end with.
\* str.find raises TypeError for a marker that is truthy and not a str.
marker_slice(content, start, end) ==
    IF ~(Truthy(start) \/ Truthy(end)) THEN Out(Str(content), <<>>)
    ELSE IF Truthy(start) /\ start.t # "str" THEN Out(Raise("TypeError"), <<>>)
    ELSE LET start_idx == IF Truthy(start) THEN py_find(content, start.s, 0) ELSE 0
         IN IF Truthy(end) /\ end.t # "str" THEN Out(Raise("TypeError"), <<>>)
            ELSE LET end_idx == IF Truthy(end)
                                THEN py_find(content, end.s, start_idx)
                                ELSE Len(content)
                 IN IF start_idx = -1 \/ (Truthy(end) /\ end_idx = -1)
                    THEN Out(Str(py_strip(content, Whitespace)),
                             <<LogRec("WARNING", MsgMarkers)>>)
                    ELSE Out(Str(py_strip(py_slice(content, start_idx, end_idx),
                                          Whitespace)), <<>>)

\* A mutated handler that lets the exception through.
except_reraise(body) == body

\* extract_markdown_content's `except Exception as e`: log, return the text.
markdown_except(body) ==
    IF body.ret.t = "raise"
    THEN Out(Str(<<MsgMdError, body.ret.exc>>),
             body.log \o <<LogRec("ERROR", MsgMdError)>>)
    ELSE body

\* A mutated handler that reports a failed plain-text extraction as text,
\* the way the Markdown extraction does.
text_except_returns_message(body) ==
    IF body.ret.t = "raise"
    THEN Out(Str(<<MsgTextError, body.ret.exc>>),
             body.log \o <<LogRec("ERROR", MsgTextError)>>)
    ELSE body

\* extract_text_content's `except Exception as e`: log, return False.
text_except(body) ==
    IF body.ret.t = "raise"
    THEN Out(Bool(FALSE), body.log \o <<LogRec("ERROR", MsgTextError)>>)
    ELSE body

\* CapPDFHandler.extract_markdown_content.  md_out is what to_markdown
\* hands back: the Markdown text, or an exception.
extract_markdown_content(md_out, cleaned, start, end) ==
    markdown_except(
        IF md_out.t = "raise" THEN Out(md_out, <<>>)
        ELSE LET removed == IF cleaned
                            THEN remove_images_from_markdown_content(md_out.s)
                            ELSE md_out.s
             IN marker_slice(format_markdown_content(removed), start, end))

\* CapPDFHandler.extract_text_content.  pages_out is what pymupdf hands
\* back: the text of each page, or an exception.
extract_text_content(pages_out, start, end) ==
    text_except(
        IF pages_out.t = "raise" THEN Out(pages_out, <<>>)
        ELSE marker_slice(py_join(<<"\n", "\n">>, pages_out.pages), start, end))

\* ------------------------------------------------------------------- state

VARIABLES
    doc,      \* the PDF's text blocks, one per page, as the engine sees them
    fs,       \* the file system: what each path refers to
    handler,  \* the CapPDFHandler: None, or its pdf_path and memory_file
    reads,    \* how many times get_memory_file has read the PDF from disk
    call,     \* the operation that ran last, with its arguments
    ret,      \* what it returned, or the exception it raised
    log       \* the log records it emitted

vars == <<doc, fs, handler, reads, call, ret, log>>

\* Concatenation of a sequence of strings.
RECURSIVE Flatten(_)
Flatten(parts) == IF parts = <<>> THEN <<>> ELSE Head(parts) \o Flatten(Tail(parts))

SeqsUpTo(S, n) == UNION {[1 .. k -> S] : k \in 0 .. n}

\* Paths are file names, a sequence of characters with the stem as one token.
PdfPath == <<"in", ".", "p", "d", "f">>
UpperPdfPath == <<"in", ".", "P", "D", "F">>
MixedPdfPath == <<"in", ".", "P", "d", "f">>
TxtPath == <<"old", ".", "t", "x", "t">>
HiddenPath == <<".", "p", "d", "f">>
NoSuffixPath == <<"in">>
DirPath == <<"docs">>
PdfDirPath == <<"dir", ".", "p", "d", "f">>
GonePath == <<"gone", ".", "p", "d", "f">>
NewPath == <<"out", ".", "m", "d">>
OrphanPath == <<"nodir/out", ".", "m", "d">>
LockedPath == <<"locked", ".", "t", "x", "t">>

Paths == {PdfPath, UpperPdfPath, MixedPdfPath, TxtPath, HiddenPath, NoSuffixPath,
          DirPath, PdfDirPath, GonePath, NewPath, OrphanPath, LockedPath}

PdfBytes == <<"%", "P", "D", "F">>
OldText == <<"o", "l", "d">>

File(data, writable) == [kind |-> "file", data |-> data, writable |-> writable]
Dir == [kind |-> "dir", data |-> <<>>, writable |-> FALSE]
\* A path that refers to nothing; writable says whether it can be created.
Missing(writable) == [kind |-> "missing", data |-> <<>>, writable |-> writable]

InitFS ==
    [p \in Paths |->
        CASE p \in {PdfPath, UpperPdfPath, MixedPdfPath, HiddenPath, NoSuffixPath}
                 -> File(PdfBytes, TRUE)
          [] p = TxtPath -> File(OldText, TRUE)
          [] p = LockedPath -> File(OldText, FALSE)
          [] p \in {DirPath, PdfDirPath} -> Dir
          [] p = NewPath -> Missing(TRUE)
          [] p \in {GonePath, OrphanPath} -> Missing(FALSE)]

\* to_markdown(self.pdf_path, write_images=False): the external engine.  It
\* raises when it cannot read the path as a PDF (fault covers a damaged
\* file), and otherwise renders the blocks one after the other.
to_markdown(path, fault) ==
    IF fault \/ fs[path].kind # "file" THEN Raise("EngineError")
    ELSE Str(Flatten(doc))

\* pymupdf.open(self.pdf_path) and page.get_text("text") for each page.
page_texts(path, fault) ==
    IF fault \/ fs[path].kind # "file" THEN Raise("EngineError")
    ELSE [t |-> "pages", pages |-> doc]

\* The caller is single-threaded and synchronous: it makes a call, takes what
\* the call returned (or raised) and only then makes the next one.
Idle == call.op = "none"

\* The caller has taken the result of the last call.
Return ==
    /\ ~Idle
    /\ call' = [op |-> "none"]
    /\ ret' = None
    /\ log' = <<>>
    /\ UNCHANGED <<doc, fs, handler, reads>>

\* handler.extract_markdown_content(cleaned, start, end)
ExtractMarkdown(cleaned, start, end, fault) ==
    /\ Idle
    /\ handler # None
    /\ LET r == extract_markdown_content(to_markdown(handler.pdf_path, fault),
                                         cleaned, start, end)
       IN /\ ret' = r.ret
          /\ log' = r.log
    /\ call' = [op |-> "extract_markdown_content", cleaned |-> cleaned,
                start |-> start, end |-> end, fault |-> fault]
    /\ UNCHANGED <<doc, fs, handler, reads>>

\* handler.extract_text_content(start, end)
ExtractText(start, end, fault) ==
    /\ Idle
    /\ handler # None
    /\ LET r == extract_text_content(page_texts(handler.pdf_path, fault), start, end)
       IN /\ ret' = r.ret
          /\ log' = r.log
    /\ call' = [op |-> "extract_text_content", start |-> start, end |-> end,
                fault |-> fault]
    /\ UNCHANGED <<doc, fs, handler, reads>>

\* A handler constructed on the PDF, before any call.
Constructed(path) == [t |-> "handler", pdf_path |-> path, memory_file |-> None]

InitExtract(docs) ==
    /\ doc \in docs
    /\ fs = InitFS
    /\ handler = Constructed(PdfPath)
    /\ reads = 0
    /\ call = [op |-> "none"]
    /\ ret = None
    /\ log = <<>>

\* --- marker slicing: short texts over two marker characters and a blank
MaxSliceBlocks == 4
SliceChunks == {<<"A">>, <<"B">>, <<" ">>}
SliceMarkers == {None, Str(<<>>), Str(<<"A">>), Str(<<"B">>), Str(<<"A", "B">>),
                 IntVal(5)}

InitSlice == InitExtract(SeqsUpTo(SliceChunks, MaxSliceBlocks))
NextSlice ==
    \/ \E start \in SliceMarkers, end \in SliceMarkers, fault \in BOOLEAN :
           \/ \E cleaned \in BOOLEAN : ExtractMarkdown(cleaned, start, end, fault)
           \/ ExtractText(start, end, fault)
    \/ Return
SpecSlice == InitSlice /\ [][NextSlice]_vars

\* --- image removal: texts made of image references, links and their parts
MaxCleanBlocks == 3
CleanChunks == {<<"!">>, <<"!", "[", "a", "]", "(", "b", ")">>,
                <<"[", "a", "]", "(", "b", ")">>, <<"!", "[">>, <<"\n">>, <<"x">>,
                <<"*", "*">>}
CleanMarkers == {None, Str(<<"x">>), Str(<<")">>)}

InitClean == InitExtract(SeqsUpTo(CleanChunks, MaxCleanBlocks))
NextClean ==
    \/ \E cleaned \in BOOLEAN, start \in CleanMarkers, end \in CleanMarkers :
           ExtractMarkdown(cleaned, start, end, FALSE)
    \/ Return
SpecClean == InitClean /\ [][NextClean]_vars

\* --- formatting: lines made of bold markers, a heading letter and whitespace
MaxFormatBlocks == 4
FormatChunks == {<<"*", "*">>, <<"*">>, <<"H">>, <<" ">>, <<"\t">>, <<"\n">>,
                 <<"_", "_">>}

InitFormat == InitExtract(SeqsUpTo(FormatChunks, MaxFormatBlocks))
NextFormat ==
    \/ \E cleaned \in BOOLEAN : ExtractMarkdown(cleaned, None, None, FALSE)
    \/ Return
SpecFormat == InitFormat /\ [][NextFormat]_vars

\* ------------------------------------------------------ handler lifecycle

\* os.path.exists(path): true of a file and of a directory alike.
os_path_exists(path) == fs[path].kind # "missing"

\* CapPDFHandler.__init__: the new handler, or the exception raised.
init_handler(resource_path) ==
    IF ~os_path_exists(resource_path) THEN Raise("FileNotFoundError")
    ELSE Constructed(resource_path)

\* handler = CapPDFHandler(path)
Construct(path) ==
    /\ Idle
    /\ handler = None
    /\ LET h == init_handler(path)
       IN /\ ret' = h
          /\ handler' = IF h.t = "raise" THEN None ELSE h
    /\ call' = [op |-> "__init__", path |-> path]
    /\ log' = <<>>
    /\ UNCHANGED <<doc, fs, reads>>

\* io.BytesIO(data), with the position of its next read.
BytesIO(id, data, pos) == [t |-> "BytesIO", id |-> id, data |-> data, pos |-> pos]
\* A reference to the buffer, as a call returns it.
Ref(buf) == [t |-> "ref", id |-> buf.id]

\* open(path, "rb") and file.read(): the bytes, or the exception raised.
read_bytes(path) ==
    CASE fs[path].kind = "file" -> Str(fs[path].data)
      [] fs[path].kind = "dir" -> Raise("IsADirectoryError")
      [] fs[path].kind = "missing" -> Raise("FileNotFoundError")

\* A mutated get_memory_file that forgets the cache and reads every time.
get_memory_file_uncached(self, n) ==
    LET data == read_bytes(self.pdf_path)
    IN IF data.t = "raise" THEN [self |-> self, reads |-> n, ret |-> data]
       ELSE LET buf == BytesIO(n + 1, data.s, 0)
            IN [self |-> [self EXCEPT !.memory_file = buf], reads |-> n + 1,
                ret |-> Ref(buf)]

\* CapPDFHandler.get_memory_file, for a handler self after n reads from
\* disk: the handler and the count after the call, and what it returns.
get_memory_file(self, n) ==
    IF self.memory_file = None
    THEN LET data == read_bytes(self.pdf_path)
         IN IF data.t = "raise" THEN [self |-> self, reads |-> n, ret |-> data]
            ELSE LET buf == BytesIO(n + 1, data.s, 0)
                 IN [self |-> [self EXCEPT !.memory_file = buf], reads |-> n + 1,
                     ret |-> Ref(buf)]
    ELSE LET buf == [self.memory_file EXCEPT !.pos = 0]
         IN [self |-> [self EXCEPT !.memory_file = buf], reads |-> n, ret |-> Ref(buf)]

\* handler.get_memory_file()
GetMemoryFile ==
    /\ Idle
    /\ handler # None
    /\ LET r == get_memory_file(handler, reads)
       IN /\ handler' = r.self
          /\ reads' = r.reads
          /\ ret' = r.ret
    /\ call' = [op |-> "get_memory_file"]
    /\ log' = <<>>
    /\ UNCHANGED <<doc, fs>>

\* The caller reads n bytes from the buffer it was handed.
CallerRead(n) ==
    /\ Idle
    /\ handler # None
    /\ handler.memory_file # None
    /\ LET buf == handler.memory_file
           left == IF buf.pos >= Len(buf.data) THEN 0 ELSE Len(buf.data) - buf.pos
           got == IF n < left THEN n ELSE left
       IN handler' = [handler EXCEPT !.memory_file.pos = buf.pos + got]
    /\ UNCHANGED <<doc, fs, reads, call, ret, log>>

\* The caller seeks in the buffer it was handed (past the end is allowed).
CallerSeek(pos) ==
    /\ Idle
    /\ handler # None
    /\ handler.memory_file # None
    /\ handler' = [handler EXCEPT !.memory_file.pos = pos]
    /\ UNCHANGED <<doc, fs, reads, call, ret, log>>

\* Path(pdf_path).rename(new_pdf_path): the caller moves the PDF away.
RenamePdf ==
    /\ Idle
    /\ handler # None
    /\ fs[handler.pdf_path].kind = "file"
    /\ fs' = [fs EXCEPT ![handler.pdf_path] = Missing(TRUE)]
    /\ UNCHANGED <<doc, handler, reads, call, ret, log>>

\* Path.suffix: from the last "." of the name on, unless the name starts or
\* ends with that dot, or has none.
py_suffix(name) ==
    LET dots == {i \in 0 .. Len(name) - 1 : name[i + 1] = "."}
    IN IF dots = {} THEN <<>>
       ELSE LET i == CHOOSE d \in dots : \A e \in dots : e <= d
            IN IF 0 < i /\ i < Len(name) - 1 THEN SubSeq(name, i + 1, Len(name))
               ELSE <<>>

LowerOf(c) ==
    CASE c = "P" -> "p"
      [] c = "D" -> "d"
      [] c = "F" -> "f"
      [] OTHER -> c

\* A mutated str.lower that changes nothing.
py_lower_keeps_case(s) == s

\* str.lower()
py_lower(s) == [i \in 1 .. Len(s) |-> LowerOf(s[i])]

\* CapPDFHandler.validate_paths: None, or the exception raised.
validate_paths(source, destination) ==
    IF ~os_path_exists(source) \/ fs[source].kind # "file"
    THEN Raise("FileNotFoundError")
    ELSE IF py_lower(py_suffix(source)) # <<".", "p", "d", "f">>
    THEN Raise("ValueError")
    ELSE IF ~os_path_exists(destination) THEN Raise("NotADirectoryError")
    ELSE IF fs[destination].kind # "dir" THEN Raise("NotADirectoryError")
    ELSE None

\* CapPDFHandler.validate_paths(source, destination)
ValidatePaths(source, destination) ==
    /\ Idle
    /\ ret' = validate_paths(source, destination)
    /\ call' = [op |-> "validate_paths", source |-> source,
                destination |-> destination]
    /\ log' = <<>>
    /\ UNCHANGED <<doc, fs, handler, reads>>

\* How far the caller seeks in the buffer, beyond the end of the PDF's bytes.
MaxSeekPast == 1

Init ==
    /\ doc = <<>>
    /\ fs = InitFS
    /\ handler = None
    /\ reads = 0
    /\ call = [op |-> "none"]
    /\ ret = None
    /\ log = <<>>

Next ==
    \/ \E path \in Paths : Construct(path)
    \/ GetMemoryFile
    \/ \E n \in 1 .. Len(PdfBytes) : CallerRead(n)
    \/ \E pos \in 0 .. Len(PdfBytes) + MaxSeekPast : CallerSeek(pos)
    \/ RenamePdf
    \/ \E source \in Paths, destination \in Paths : ValidatePaths(source, destination)
    \/ Return

Spec == Init /\ [][Next]_vars

\* ------------------------------------------------------------ save helpers

\* A mutated write that opens the file for appending.
write_text_appends(files, path, content) ==
    IF files[path].kind = "file" /\ files[path].writable /\ content.t = "str"
    THEN [fs |-> [files EXCEPT ![path] = File(files[path].data \o content.s, TRUE)],
          exc |-> None]
    ELSE [fs |-> files, exc |-> Raise("OSError")]

\* with open(path, "w", encoding="utf-8") as f: f.write(content), on the
\* files given: the files afterwards, and the exception raised, if any.
\* open() creates or truncates the file before anything is written, and
\* write() raises TypeError for a content that is not a str.
write_text(files, path, content) ==
    CASE files[path].kind = "dir" -> [fs |-> files, exc |-> Raise("IsADirectoryError")]
      [] files[path].kind = "missing" /\ ~files[path].writable
             -> [fs |-> files, exc |-> Raise("FileNotFoundError")]
      [] files[path].kind = "file" /\ ~files[path].writable
             -> [fs |-> files, exc |-> Raise("PermissionError")]
      [] OTHER ->
             IF content.t # "str"
             THEN [fs |-> [files EXCEPT ![path] = File(<<>>, TRUE)],
                   exc |-> Raise("TypeError")]
             ELSE [fs |-> [files EXCEPT ![path] = File(content.s, TRUE)],
                   exc |-> None]

\* CapPDFHandler.save_markdown_to_file: the files afterwards and the log.
\* It returns None on every path.
save_markdown_to_file(output_path, markdown_content, cleaned, start, end, fault) ==
    LET content == IF markdown_content = None
                   THEN extract_markdown_content(
                            to_markdown(handler.pdf_path, fault), cleaned, start, end)
                   ELSE Out(markdown_content, <<>>)
        w == write_text(fs, output_path, content.ret)
    IN [fs |-> w.fs,
        ret |-> None,
        log |-> content.log \o
                <<IF w.exc = None THEN LogRec("INFO", MsgMdSaved)
                  ELSE LogRec("ERROR", MsgMdSaveFailed)>>]

\* CapPDFHandler.save_text_to_file: the files afterwards and the log.
save_text_to_file(output_path, text_content, start, end, fault) ==
    LET content == IF text_content = None
                   THEN extract_text_content(
                            page_texts(handler.pdf_path, fault), start, end)
                   ELSE Out(text_content, <<>>)
        w == write_text(fs, output_path, content.ret)
    IN [fs |-> w.fs,
        ret |-> None,
        log |-> content.log \o
                <<IF w.exc = None THEN LogRec("INFO", MsgTextSaved)
                  ELSE LogRec("ERROR", MsgTextSaveFailed)>>]

\* handler.save_markdown_to_file(output_path, markdown_content, cleaned, start, end)
SaveMarkdown(output_path, markdown_content, cleaned, start, end, fault) ==
    /\ Idle
    /\ handler # None
    /\ LET r == save_markdown_to_file(output_path, markdown_content, cleaned,
                                      start, end, fault)
       IN /\ fs' = r.fs
          /\ ret' = r.ret
          /\ log' = r.log
    /\ call' = [op |-> "save_markdown_to_file", path |-> output_path,
                content |-> markdown_content, cleaned |-> cleaned,
                start |-> start, end |-> end, fault |-> fault]
    /\ UNCHANGED <<doc, handler, reads>>

\* handler.save_text_to_file(output_path, text_content, start, end)
SaveText(output_path, text_content, start, end, fault) ==
    /\ Idle
    /\ handler # None
    /\ LET r == save_text_to_file(output_path, text_content, start, end, fault)
       IN /\ fs' = r.fs
          /\ ret' = r.ret
          /\ log' = r.log
    /\ call' = [op |-> "save_text_to_file", path |-> output_path,
                content |-> text_content, cleaned |-> FALSE,
                start |-> start, end |-> end, fault |-> fault]
    /\ UNCHANGED <<doc, handler, reads>>

\* --- saving: a short text, a few output paths, content given or omitted
MaxSaveBlocks == 2
SaveChunks == {<<"A">>, <<" ">>}
SaveStarts == {None, Str(<<"A">>)}
SaveEnds == {None, Str(<<"A">>), IntVal(5)}
OutPaths == {NewPath, TxtPath, DirPath, OrphanPath, LockedPath}
\* Content handed to a save helper; the example passes on whatever
\* extract_text_content returned, which is False after a failure.
GivenContents == {Str(<<"h", "i">>), Bool(FALSE)}

InitSave == InitExtract(SeqsUpTo(SaveChunks, MaxSaveBlocks))
NextSave ==
    \/ \E path \in OutPaths :
          \/ \E given \in GivenContents :
                \/ SaveMarkdown(path, given, FALSE, None, None, FALSE)
                \/ SaveText(path, given, None, None, FALSE)
          \/ \E start \in SaveStarts, end \in SaveEnds, fault \in BOOLEAN :
                \/ \E cleaned \in BOOLEAN :
                      SaveMarkdown(path, None, cleaned, start, end, fault)
                \/ SaveText(path, None, start, end, fault)
    \/ Return
SpecSave == InitSave /\ [][NextSave]_vars

\* ------------------------------------------------- properties: extraction

IsMarkdownCall == call.op = "extract_markdown_content"
IsTextCall == call.op = "extract_text_content"
IsExtractCall == IsMarkdownCall \/ IsTextCall

\* The extracted content the markers are looked up in: the engine's Markdown
\* after the optional cleaning and the formatting, or the joined page texts.
ExtractedContent ==
    IF IsMarkdownCall
    THEN format_markdown_content(
             IF call.cleaned THEN remove_images_from_markdown_content(Flatten(doc))
             ELSE Flatten(doc))
    ELSE py_join(<<"\n", "\n">>, doc)

\* The 0-based indices at which sub occurs in s.
Occurrences(s, sub) == {i \in 0 .. Len(s) : OccursAt(s, sub, i)}

\* t is s without its leading and trailing whitespace.
IsTrimOf(t, s) ==
    \E a \in 0 .. Len(s) : \E b \in a .. Len(s) :
        /\ t = SubSeq(s, a + 1, b)
        /\ \A x \in 1 .. a : s[x] \in Whitespace
        /\ \A x \in b + 1 .. Len(s) : s[x] \in Whitespace
        /\ t # <<>> => (t[1] \notin Whitespace /\ t[Len(t)] \notin Whitespace)

IsMarker(m) == m.t = "str" /\ m.s # <<>>
HasWarning == \E i \in 1 .. Len(log) : log[i].level = "WARNING"
HasError == \E i \in 1 .. Len(log) : log[i].level = "ERROR"

\* A call with two non-empty string markers and a working engine.
TwoMarkerCall ==
    IsExtractCall /\ ~call.fault /\ IsMarker(call.start) /\ IsMarker(call.end)

\* C1 as stated: with A and B both present and A before B, the result runs
\* from the first occurrence of A (all of A included) to the first occurrence
\* of B after that A, trimmed.
C1_AsStated ==
    TwoMarkerCall =>
        LET c == ExtractedContent
            A == call.start.s
            B == call.end.s
        IN \A i \in Occurrences(c, A) :
               (/\ i = Min(Occurrences(c, A))
                /\ \E j \in Occurrences(c, B) : j >= i + Len(A))
               => LET j == Min({k \in Occurrences(c, B) : k >= i + Len(A)})
                  IN ret.t = "str" /\ IsTrimOf(ret.s, SubSeq(c, i + 1, j))

\* C1 amended: the result runs from the first occurrence of A to the first
\* occurrence of B that starts at or after the start of that A (so B may
\* start inside A, and the result is empty when it starts where A does),
\* trimmed.
C1_FirstEndAtOrAfterStart ==
    TwoMarkerCall =>
        LET c == ExtractedContent
            A == call.start.s
            B == call.end.s
        IN \A i \in Occurrences(c, A) :
               (/\ i = Min(Occurrences(c, A))
                /\ \E j \in Occurrences(c, B) : j >= i)
               => LET j == Min({k \in Occurrences(c, B) : k >= i})
                  IN ret.t = "str" /\ IsTrimOf(ret.s, SubSeq(c, i + 1, j))

\* C1 witness: A slice that dropped text before A, text from B on, and blanks around.
C1_Witness ==
    /\ TwoMarkerCall
    /\ call.start.s = <<"A">>
    /\ call.end.s = <<"B">>
    /\ Occurrences(ExtractedContent, <<"B">>) # {}
    /\ Min(Occurrences(ExtractedContent, <<"B">>)) = 0
    /\ ret = Str(<<"A">>)
    /\ Len(ExtractedContent) > 3

\* C2: when start or end is a marker that does not occur in the content,
\* the call returns the whole content trimmed, and logs a warning.
C2_MissingMarkerFullContent ==
    (/\ IsExtractCall
     /\ ~call.fault
     /\ call.start.t \in {"None", "str"}
     /\ call.end.t \in {"None", "str"}
     /\ \/ IsMarker(call.start) /\ Occurrences(ExtractedContent, call.start.s) = {}
        \/ IsMarker(call.end) /\ Occurrences(ExtractedContent, call.end.s) = {})
    => /\ ret.t = "str"
       /\ IsTrimOf(ret.s, ExtractedContent)
       /\ HasWarning

\* C2 witness: The end marker is absent, the start marker present; blanks were trimmed.
C2_Witness ==
    /\ IsTextCall
    /\ ~call.fault
    /\ call.start = Str(<<"A">>)
    /\ call.end = Str(<<"B">>)
    /\ Occurrences(ExtractedContent, <<"A">>) # {}
    /\ Occurrences(ExtractedContent, <<"B">>) = {}
    /\ HasWarning
    /\ ret.t = "str"
    /\ ret.s # <<>>
    /\ Len(ret.s) < Len(ExtractedContent)

\* The call fails inside: the engine raises, or str.find is handed a marker
\* that is not a string.
InternalFailure ==
    \/ call.fault
    \/ Truthy(call.start) /\ call.start.t # "str"
    \/ Truthy(call.end) /\ call.end.t # "str"

\* C5: neither extraction raises; on an internal failure the Markdown one
\* returns the error text and the plain-text one False; otherwise each
\* returns a string.
C5_ExtractionNeverRaises ==
    IsExtractCall =>
        /\ ret.t # "raise"
        /\ InternalFailure =>
              /\ HasError
              /\ IsMarkdownCall => (ret.t = "str" /\ Len(ret.s) = 2
                                    /\ ret.s[1] = MsgMdError)
              /\ IsTextCall => ret = Bool(FALSE)
        /\ ~InternalFailure => ret.t = "str"

\* C5 witness: A fault while slicing (a marker that is an int), reported as text.
C5_Witness ==
    /\ IsMarkdownCall
    /\ ~call.fault
    /\ call.end = IntVal(5)
    /\ ret = Str(<<MsgMdError, "TypeError">>)

\* An image reference ![alt](url) starts at 0-based index i of s: "![",
\* later "](", later ")", all on one line.
ImageRefAt(s, i) ==
    /\ OccursAt(s, <<"!", "[">>, i)
    /\ \E j \in i + 2 .. Len(s) : \E k \in j + 2 .. Len(s) - 1 :
           /\ OccursAt(s, <<"]", "(">>, j)
           /\ s[k + 1] = ")"
           /\ NoNewline(s, i, k)

HasImageRef(s) == \E i \in 0 .. Len(s) : ImageRefAt(s, i)

CleanedCall == IsMarkdownCall /\ call.cleaned /\ ~call.fault /\ ret.t = "str"

\* C6 as stated: the output of a cleaned extraction holds no image
\* reference at all, not even one that comes into being by the removal.
C6_AsStated == CleanedCall => ~HasImageRef(ret.s)

\* C6 amended: the output of a cleaned extraction holds no image reference
\* when the engine's Markdown has no "!" directly in front of an image
\* reference; only there can the removal leave a new reference behind.
C6_NoImageUnlessBangBeforeImage ==
    (/\ CleanedCall
     /\ \A p \in 0 .. Len(Flatten(doc)) :
            ~(OccursAt(Flatten(doc), <<"!">>, p) /\ ImageRefAt(Flatten(doc), p + 1)))
    => ~HasImageRef(ret.s)

\* C6 witness: Image references were in the Markdown, text around them was returned.
C6_Witness ==
    /\ CleanedCall
    /\ call.start = None
    /\ call.end = None
    /\ HasImageRef(Flatten(doc))
    /\ Len(doc) = 3
    /\ ret.s = <<"x", "x">>

\* The line is one bold span and whitespace around it: the text of the span.
\* (A set: empty when the line is not of that shape.)
BoldSpanOf(line) ==
    {SubSeq(line, p + 3, q) : <<p, q>> \in
        {pq \in (0 .. Len(line)) \X (0 .. Len(line)) :
            LET p == pq[1]
                q == pq[2]
            IN /\ q >= p + 3
               /\ \A x \in 1 .. p : line[x] \in Whitespace
               /\ OccursAt(line, <<"*", "*">>, p)
               /\ \A x \in p + 3 .. q : line[x] # "*"
               /\ OccursAt(line, <<"*", "*">>, q)
               /\ \A x \in q + 3 .. Len(line) : line[x] \in Whitespace}}

\* h with some (or none) of the whitespace at its ends removed.
TrimsOf(h) ==
    {SubSeq(h, a, b) : a \in {x \in 1 .. Len(h) + 1 : \A y \in 1 .. x - 1 : h[y] \in Whitespace},
                       b \in {x \in 0 .. Len(h) : \A y \in x + 1 .. Len(h) : h[y] \in Whitespace}}

\* C7 as stated: a line that is one bold span, with whitespace of any kind
\* around it, becomes "## " and the text of the span (the whitespace at the
\* ends of that text may go too); every other line is left as it is.  A
\* bold span of nothing but whitespace is no heading, and is left open.
C7_AsStated ==
    (IsMarkdownCall /\ ~call.cleaned /\ ~call.fault
        /\ call.start = None /\ call.end = None)
    => LET before == py_split(Flatten(doc))
           after == py_split(ret.s)
       IN /\ ret.t = "str"
          /\ Len(after) = Len(before)
          /\ \A i \in 1 .. Len(before) :
                IF BoldSpanOf(before[i]) = {} THEN after[i] = before[i]
                ELSE \E h \in BoldSpanOf(before[i]) :
                        \/ \A x \in 1 .. Len(h) : h[x] \in Whitespace
                        \/ \E t \in TrimsOf(h) : after[i] = <<"#", "#", " ">> \o t

\* ---------------------------------------------------- properties: handler

\* C3: every get_memory_file call that returns hands back the one cached
\* buffer (the first one made), positioned at offset 0 and holding the PDF's
\* bytes, whatever the caller read or sought before; the PDF is read from
\* disk at most once; and the call returns whenever the PDF is still a file
\* or the buffer is already cached.
C3_CachedBufferRewound ==
    /\ reads <= 1
    /\ call.op = "get_memory_file" =>
          /\ ret.t = "ref" =>
                /\ ret.id = 1
                /\ handler.memory_file.id = 1
                /\ handler.memory_file.pos = 0
                /\ handler.memory_file.data = InitFS[handler.pdf_path].data
                /\ reads = 1
          /\ fs[handler.pdf_path].kind = "file" => ret.t = "ref"
          /\ handler.memory_file # None => ret.t = "ref"

\* C3 witness: The buffer is returned from the cache after the PDF was moved away.
C3_Witness ==
    /\ call.op = "get_memory_file"
    /\ ret.t = "ref"
    /\ reads = 1
    /\ fs[handler.pdf_path].kind = "missing"
    /\ handler.memory_file.pos = 0

\* C8 as stated: the constructor raises the not-found error for every path
\* that is not an existing regular file, a directory included, and for an
\* existing file it succeeds and stores the path only.
C8_AsStated ==
    call.op = "__init__" =>
        IF fs[call.path].kind = "file"
        THEN ret = Constructed(call.path) /\ handler = ret
             /\ handler.memory_file = None
        ELSE ret = Raise("FileNotFoundError") /\ handler = None

\* The source names a PDF: a non-empty stem, then ".pdf" in any case.
HasPdfExtension(name) ==
    /\ Len(name) >= 5
    /\ name[Len(name) - 3] = "."
    /\ name[Len(name) - 2] \in {"p", "P"}
    /\ name[Len(name) - 1] \in {"d", "D"}
    /\ name[Len(name)] \in {"f", "F"}

\* C9: validate_paths decides in a fixed order: not-found unless the source
\* is a regular file; else invalid-format unless its extension is .pdf in
\* any case; else NotADirectoryError unless the destination is an existing
\* directory; else it returns without error.
C9_ValidationOrder ==
    call.op = "validate_paths" =>
        ret = IF fs[call.source].kind # "file" THEN Raise("FileNotFoundError")
              ELSE IF ~HasPdfExtension(call.source) THEN Raise("ValueError")
              ELSE IF fs[call.destination].kind # "dir"
                   THEN Raise("NotADirectoryError")
              ELSE None

\* C9 witness: A source with an upper-case extension is accepted.
C9_Witness ==
    /\ call.op = "validate_paths"
    /\ call.source = UpperPdfPath
    /\ call.destination = DirPath
    /\ ret = None

\* ------------------------------------------------------ properties: saves

IsSaveMarkdown == call.op = "save_markdown_to_file"
IsSaveText == call.op = "save_text_to_file"
IsSaveCall == IsSaveMarkdown \/ IsSaveText

\* What the save helper is to write: the content it was given or, when that
\* was omitted, what the extraction returns for the same arguments.
ContentToSave ==
    IF call.content # None THEN call.content
    ELSE IF IsSaveMarkdown
    THEN extract_markdown_content(to_markdown(handler.pdf_path, call.fault),
                                  call.cleaned, call.start, call.end).ret
    ELSE extract_text_content(page_texts(handler.pdf_path, call.fault),
                              call.start, call.end).ret

\* open(path, "w") succeeds: a writable file, or a name that can be created.
\* (No save changes whether a path of the model can be opened.)
CanOpen(path) == InitFS[path].kind # "dir" /\ InitFS[path].writable

LastLog == log[Len(log)]

\* C4 as stated: the save helpers never raise, and the file at the given
\* path holds exactly the content given or extracted, whatever the path.
C4_AsStated ==
    IsSaveCall =>
        /\ ret = None
        /\ ContentToSave.t = "str"
        /\ fs[call.path].kind = "file"
        /\ fs[call.path].data = ContentToSave.s

\* C4 amended: the save helpers never raise.  When the path can be opened
\* for writing and the content given or extracted is a string, the file
\* holds exactly that string and success is logged; when the path can be
\* opened and the content is not a string, the file is left empty and the
\* failure is logged; when the path cannot be opened, nothing is written and
\* the failure is logged.
C4_SaveWritesOrLogs ==
    IsSaveCall =>
        /\ ret = None
        /\ log # <<>>
        /\ (CanOpen(call.path) /\ ContentToSave.t = "str") =>
              /\ fs[call.path] = File(ContentToSave.s, TRUE)
              /\ LastLog.level = "INFO"
        /\ (CanOpen(call.path) /\ ContentToSave.t # "str") =>
              /\ fs[call.path] = File(<<>>, TRUE)
              /\ LastLog.level = "ERROR"
        /\ ~CanOpen(call.path) =>
              /\ fs[call.path] = InitFS[call.path]
              /\ LastLog.level = "ERROR"

\* C4 witness: A sliced plain-text extraction replaced the old content of a file.
C4_Witness ==
    /\ IsSaveText
    /\ call.content = None
    /\ call.path = TxtPath
    /\ call.start = Str(<<"A">>)
    /\ ~call.fault
    /\ Len(doc) = 2
    /\ fs[TxtPath].data = <<"A">>
    /\ LastLog = LogRec("INFO", MsgTextSaved)

\* The extraction a save helper runs fails inside.
SaveExtractionFails ==
    /\ IsSaveCall
    /\ call.content = None
    /\ \/ call.fault
       \/ Truthy(call.start) /\ call.start.t # "str"
       \/ Truthy(call.end) /\ call.end.t # "str"

\* C10: with the content omitted, the extraction failing and the path one
\* that can be opened, save_text_to_file returns without raising, logs the
\* failure and leaves the file existing and empty; save_markdown_to_file
\* writes the error text as the file's content and logs success.
C10_FailedExtractionSaved ==
    (SaveExtractionFails /\ CanOpen(call.path)) =>
        /\ ret = None
        /\ IsSaveText =>
              /\ fs[call.path] = File(<<>>, TRUE)
              /\ LastLog = LogRec("ERROR", MsgTextSaveFailed)
        /\ IsSaveMarkdown =>
              /\ fs[call.path].kind = "file"
              /\ Len(fs[call.path].data) = 2
              /\ fs[call.path].data[1] = MsgMdError
              /\ LastLog = LogRec("INFO", MsgMdSaved)

\* C10 witness: The old content of a file is lost to a failed plain-text extraction.
C10_Witness ==
    /\ IsSaveText
    /\ SaveExtractionFails
    /\ call.fault
    /\ call.path = TxtPath
    /\ InitFS[TxtPath].data = OldText
    /\ fs[TxtPath] = File(<<>>, TRUE)
    /\ LastLog = LogRec("ERROR", MsgTextSaveFailed)

====
